---- MODULE Spec2Model ----
(***************************************************************************)
(* bevy_remote_inspector: the remote entity-graph client.                  *)
(*                                                                         *)
(* The model covers the shared cells of TemplateApp (download, components, *)
(* error_info), the UI thread's frame (TemplateApp::update), the callback  *)
(* that ehttp::fetch runs on a worker thread for every dispatched fetch,   *)
(* and the protocol helpers of helper.rs (create_request, parse).          *)
(*                                                                         *)
(* A Mutex guard that lives for one statement (lock, assign, unlock) is    *)
(* one atomic step.  The two guards the render closure keeps (content,     *)
(* error) are held across steps and are visible in ui_pc.                  *)
(***************************************************************************)
EXTENDS Integers, Sequences, FiniteSets, TLC

\* ------------------------------------------------------------------ bounds
\* Entity identifiers are 1..MaxEntity.
MaxEntity == 2
\* A query result carries at most MaxRows rows.
MaxRows == 2
\* At most MaxFetches clicks of the Fetch button are followed.
MaxFetches == 2
\* At most MaxCalls calls of create_request are followed.
MaxCalls == 3

VARIABLES
    download,      \* TemplateApp.download: "None" | "InProgress" | "Done"
    components,    \* TemplateApp.components: map Entity -> BrpQueryRow
    error_info,    \* TemplateApp.error_info: Option<String>
    ui_pc,         \* position of the UI thread inside update()
    cb_pc,         \* per fetch: position of its transport callback
    requests,      \* every request envelope built so far, in order
    COUNTER,       \* helper.rs COUNTER (AtomicUsize)
    parsed,        \* result of the last helper.rs parse() call
    arrival,       \* history: fetch ids in the order their callbacks fired
    applied,       \* history: fetch ids in the order they replaced components
    source,        \* history: the result payload components was last built from
    newest,        \* history: the snapshot written by the latest-fired writer
    skip_empty_entities, \* TemplateApp.skip_empty_entities
    open,          \* egui memory: the entity headers the user has opened
    shown,         \* what the last render pass put on the screen
    collected      \* input and result of the last to_hash_map() call

\* The variables of the tree view and of the row conversion.
view == <<skip_empty_entities, open, shown, collected>>

vars == <<download, components, error_info, ui_pc, cb_pc, requests,
          COUNTER, parsed, arrival, applied, source, newest,
          skip_empty_entities, open, shown, collected>>

Entities == 1..MaxEntity
Fetches == 1..MaxFetches

\* ------------------------------------------------------------- JSON values
\* A component bag (HashMap<String, Value>) is a set of <<name, value>> pairs
\* with unique names.
EmptyBag == {}
NameBag == {<<"bevy_core::name::Name",
             [type |-> "object",
              fields |-> {<<"name", [type |-> "string", value |-> "player"]>>}]>>}

\* JSON objects that deserialize into a BrpQueryRow (has may be absent):
\* one per entity, carrying a Name component ...
QueryItems == [entity : Entities, components : {NameBag}]
\* ... and one that does not: the required field entity is missing.
BadItem == [components |-> EmptyBag]

SeqsUpTo(S, n) == UNION {[1..k -> S] : k \in 0..n}

\* The result member of a success envelope (a serde_json::Value): an array
\* of rows, an array whose last element is no row, or no array at all.
RowPayloads(items) ==
    {[type |-> "array", items |-> s] : s \in SeqsUpTo(items, MaxRows)}
MalformedPayloads(items) ==
    {[type |-> "array", items |-> Append(s, BadItem)] : s \in SeqsUpTo(items, MaxRows - 1)}
        \cup {[type |-> "null"]}
PayloadsOf(items) == RowPayloads(items) \cup MalformedPayloads(items)

\* jsonrpc_types::Output
FailureOutput == [variant |-> "Failure",
                  error |-> [code |-> -32601, message |-> "Method not found"]]
OutputsOf(items) ==
    {[variant |-> "Success", result |-> p] : p \in PayloadsOf(items)} \cup {FailureOutput}

\* The text of a response body, by what serde_json::from_str makes of it:
\* no JSON-RPC response at all, a single output, or a batch of outputs.
InvalidDocs == {[json |-> "invalid", text |-> "<html>"],
                [json |-> "invalid", text |-> "{}"]}
BatchDocs == {[json |-> "batch", outputs |-> <<>>],
              [json |-> "batch", outputs |-> <<FailureOutput>>]}
DocsOf(items) ==
    InvalidDocs \cup BatchDocs \cup {[json |-> "single", output |-> o] : o \in OutputsOf(items)}

\* ehttp::Response bodies: bytes that are UTF-8 text, or not.
BinaryBody == [utf8 |-> FALSE]
BodiesOf(items) == {BinaryBody} \cup {[utf8 |-> TRUE, doc |-> d] : d \in DocsOf(items)}

\* ehttp::Response
NotOkResponses ==
    {[ok |-> FALSE, body |-> b] :
        b \in {BinaryBody, [utf8 |-> TRUE, doc |-> [json |-> "invalid", text |-> "<html>"]]}}
ResponsesOf(items) ==
    {[ok |-> TRUE, body |-> b] : b \in BodiesOf(items)} \cup NotOkResponses

\* The responses to a query.
HttpResponses == ResponsesOf(QueryItems)

\* What ehttp::fetch hands to the callback of a query: Result<Response, String>.
TransportErr == [result |-> "Err", error |-> "connection refused"]
FetchResults ==
    {TransportErr} \cup {[result |-> "Ok", response |-> r] : r \in HttpResponses}

\* Option<String>
None == [some |-> FALSE]
Some(s) == [some |-> TRUE, value |-> s]

\* ------------------------------------------------------------ pure helpers
\* Result<T, E>; Panic stands for a thread unwinding from unwrap()/expect().
Ok(v) == [tag |-> "Ok", value |-> v]
Err(m) == [tag |-> "Err", msg |-> m]
Panic == [tag |-> "Panic"]

\* serde_json::from_str::<jsonrpc_types::v2::Response>(json)
from_str(doc) ==
    IF doc.json = "invalid" THEN Err("expected value") ELSE Ok(doc)

\* One element of the result array into a BrpQueryRow: entity and
\* components are required, has defaults to the empty map.
RowDecodes(item) == {"entity", "components"} \subseteq DOMAIN item
DecodeRow(item) ==
    [entity |-> item.entity,
     components |-> item.components,
     has |-> IF "has" \in DOMAIN item THEN item.has ELSE EmptyBag]

\* A lenient decoder, which would drop the elements that are no rows.
from_value_Lenient(value) ==
    IF value.type # "array" THEN Err("invalid type, expected a sequence")
    ELSE LET rows == SelectSeq(value.items, RowDecodes)
         IN Ok([i \in DOMAIN rows |-> DecodeRow(rows[i])])

\* serde_json::from_value::<BrpQueryResponse>(value): all rows or an error.
from_value(value) ==
    IF value.type # "array" THEN Err("invalid type, expected a sequence")
    ELSE IF \E i \in DOMAIN value.items : ~RowDecodes(value.items[i])
         THEN Err("missing field entity")
         ELSE Ok([i \in DOMAIN value.items |-> DecodeRow(value.items[i])])

\* An insertion that keeps the entry a key already has.
Insert_KeepFirst(map, key, row) ==
    [k \in (DOMAIN map) \cup {key} |-> IF k \in DOMAIN map THEN map[k] ELSE row]

\* HashMap::insert
Insert(map, key, row) ==
    [k \in (DOMAIN map) \cup {key} |-> IF k = key THEN row ELSE map[k]]

EmptyMap == [k \in {} |-> k]

\* The screen before the first render pass.
Unrendered ==
    [rendered |-> FALSE, message |-> [kind |-> "none", text |-> ""],
     roots |-> {}, visited |-> {}, headers |-> {}, labels |-> {},
     dumps |-> {}, panicked |-> FALSE, overflow |-> FALSE]

\* Iterator::collect into a HashMap: the pairs are inserted in sequence order.
RECURSIVE Collect(_, _)
Collect(map, rows) ==
    IF rows = <<>> THEN map
    ELSE Collect(Insert(map, Head(rows).entity, Head(rows)), Tail(rows))

\* ToHashMap::to_hash_map
to_hash_map(rows) == Collect(EmptyMap, rows)

\* format!("{:#?}", x) of the three things the callback formats.
DebugFormat(x) ==
    IF "result" \in DOMAIN x THEN "Err(connection refused)"
    ELSE IF "ok" \in DOMAIN x THEN "Response { ok: false }"
    ELSE "Failure { code: -32601, message: Method not found }"

\* helper.rs parse::<BrpQueryResponse>(&response)
parse(response) ==
    IF ~response.body.utf8 THEN Err("Cannot parse text")
    ELSE LET result == from_str(response.body.doc) IN
         IF result.tag = "Err" THEN Panic
         ELSE IF result.value.json # "single" THEN Err("NOT ONE")
         ELSE LET output == result.value.output IN
              IF output.variant = "Failure" THEN Err("Method not found")
              ELSE from_value(output.result)

\* serde_json::to_value(value): the value as a JSON tree.
to_value(value) == [json |-> value]

\* The request envelope the Fetch button builds by hand.
QueryRequest ==
    [jsonrpc |-> "2.0", method |-> "bevy/query",
     id |-> [type |-> "string", value |-> "1"],
     params |-> Some(to_value("BrpQueryParams"))]

\* ------------------------------------------------------------------- Init
Init ==
    /\ download = "None"
    /\ components = EmptyMap
    /\ error_info = None
    /\ ui_pc = "frame"
    /\ cb_pc = [f \in Fetches |-> "unused"]
    /\ requests = <<>>
    /\ COUNTER = 1
    /\ parsed = [called |-> FALSE]
    /\ arrival = <<>>
    /\ applied = <<>>
    /\ source = [fetch |-> 0, items |-> <<>>, repeat |-> FALSE]
    /\ newest = EmptyMap
    /\ skip_empty_entities = TRUE
    /\ open = {}
    /\ shown = Unrendered
    /\ collected = [called |-> FALSE, rows |-> <<>>, map |-> EmptyMap]

\* -------------------------------------------------------------- UI thread
\* The guards of the render closure: content from its lock to the end of the
\* closure, error likewise.
ComponentsLocked == ui_pc \in {"content", "error"}
ErrorLocked == ui_pc = "error"

\* The guards a callback holds between two of its statements: each of its
\* locks is a temporary of one assignment and is dropped at the end of it.
CbHoldsComponents(f) == FALSE

\* A callback that takes the error guard when it starts handling the
\* response and keeps it until it returns.
CbHoldsError_UntilReturn(f) == cb_pc[f] \in {"L286", "L309"}

\* As CbHoldsComponents, for the error cell.
CbHoldsError(f) == FALSE

\* A gate that never closes.
is_downloading_Never(d) == FALSE

\* is_downloading, as update() computes it from the download cell.
is_downloading(d) == d = "InProgress"

\* update(): reads the download cell and enables or disables the button row.
UiReadDownload ==
    /\ ui_pc = "frame"
    /\ ui_pc' = IF is_downloading(download) THEN "disabled" ELSE "enabled"
    /\ UNCHANGED <<download, components, error_info, cb_pc, requests,
                   COUNTER, parsed, arrival, applied, source, newest,
                   view>>

\* The fetch the next click dispatches.
NextFetch == Cardinality({f \in Fetches : cb_pc[f] # "unused"}) + 1

\* A click that empties the snapshot while the new one is on its way.
UiClickFetch_Clears ==
    /\ ui_pc = "enabled"
    /\ NextFetch \in Fetches
    /\ download' = "InProgress"
    /\ components' = EmptyMap
    /\ requests' = Append(requests, QueryRequest)
    /\ cb_pc' = [cb_pc EXCEPT ![NextFetch] = "in_flight"]
    /\ ui_pc' = "render"
    /\ UNCHANGED <<error_info, COUNTER, parsed, arrival, applied, source, newest,
                   view>>

\* update(): the enabled Fetch button is clicked; the status is set, the
\* request envelope is built and handed to ehttp::fetch.
UiClickFetch ==
    /\ ui_pc = "enabled"
    /\ NextFetch \in Fetches
    /\ download' = "InProgress"
    /\ requests' = Append(requests, QueryRequest)
    /\ cb_pc' = [cb_pc EXCEPT ![NextFetch] = "in_flight"]
    /\ ui_pc' = "render"
    /\ UNCHANGED <<components, error_info, COUNTER, parsed, arrival, applied, source, newest,
                   view>>

\* update(): the button is not clicked in this frame (or is disabled).
UiNoClick ==
    /\ ui_pc \in {"enabled", "disabled"}
    /\ ui_pc' = "render"
    /\ UNCHANGED <<download, components, error_info, cb_pc, requests,
                   COUNTER, parsed, arrival, applied, source, newest,
                   view>>

\* update(): let content = self.components.lock().unwrap();
UiLockComponents ==
    /\ ui_pc = "render"
    /\ \A f \in DOMAIN cb_pc : ~CbHoldsComponents(f)
    /\ ui_pc' = "content"
    /\ UNCHANGED <<download, components, error_info, cb_pc, requests,
                   COUNTER, parsed, arrival, applied, source, newest,
                   view>>

\* update(): let error = self.error_info.lock().unwrap();
UiLockError ==
    /\ ui_pc = "content"
    /\ \A f \in DOMAIN cb_pc : ~CbHoldsError(f)
    /\ ui_pc' = "error"
    /\ UNCHANGED <<download, components, error_info, cb_pc, requests,
                   COUNTER, parsed, arrival, applied, source, newest,
                   view>>

\* update(): the closure draws from content and error and drops both guards.
UiDraw ==
    /\ ui_pc = "error"
    /\ ui_pc' = "frame"
    /\ UNCHANGED <<download, components, error_info, cb_pc, requests,
                   COUNTER, parsed, arrival, applied, source, newest,
                   view>>

\* ------------------------------------------------------- fetch callback
\* History: the position of f among the fired callbacks, the fetches that
\* have replaced the snapshot, and whether f fired after all of those.
ArrivalIndex(f) == CHOOSE i \in DOMAIN arrival : arrival[i] = f
Succeeded == {applied[i] : i \in DOMAIN applied}
FiredAfterWriters(f) == \A g \in Succeeded : ArrivalIndex(g) < ArrivalIndex(f)

\* A callback that forgets the status.
CbSetDone_NoStatus(f) ==
    /\ cb_pc[f] = "in_flight"
    /\ cb_pc' = [cb_pc EXCEPT ![f] = "L286"]
    /\ arrival' = Append(arrival, f)
    /\ UNCHANGED <<download, components, error_info, ui_pc, requests, COUNTER,
                   parsed, applied, source, newest,
                   view>>

\* The callback's first statement: the status becomes Done.
CbSetDone(f) ==
    /\ cb_pc[f] = "in_flight"
    /\ download' = "Done"
    /\ cb_pc' = [cb_pc EXCEPT ![f] = "L286"]
    /\ arrival' = Append(arrival, f)
    /\ UNCHANGED <<components, error_info, ui_pc, requests, COUNTER, parsed,
                   applied, source, newest,
                   view>>

\* What the ok branch makes of the body before it touches a cell:
\* text().unwrap(), from_str(..).unwrap(), the Single and Success matches,
\* from_value(..).unwrap().
Decoded(response) ==
    IF ~response.body.utf8 THEN Panic
    ELSE LET result == from_str(response.body.doc) IN
         IF result.tag = "Err" THEN Panic
         ELSE IF result.value.json # "single" THEN [tag |-> "Batch"]
         ELSE LET output == result.value.output IN
              IF output.variant = "Failure" THEN [tag |-> "Failure", error |-> output.error]
              ELSE LET converted == from_value(output.result) IN
                   IF converted.tag = "Err" THEN Panic ELSE converted

\* The branch of the callback a result takes.
Branch(r) ==
    IF r.result = "Err" THEN "transport"
    ELSE IF ~r.response.ok THEN "http"
    ELSE Decoded(r.response).tag

ResultsTaking == [b \in {"transport", "http", "Panic", "Batch", "Failure", "Ok"} |->
                    {r \in FetchResults : Branch(r) = b}]

\* let Ok(response) = response else { error; repaint; return }
CbTransportError(f, r) ==
    /\ cb_pc[f] = "L286"
    /\ Branch(r) = "transport"
    /\ ~ErrorLocked
    /\ error_info' = Some(DebugFormat(r))
    /\ cb_pc' = [cb_pc EXCEPT ![f] = "returned_repaint"]
    /\ UNCHANGED <<download, components, ui_pc, requests, COUNTER, parsed,
                   arrival, applied, source, newest,
                   view>>

\* if response.ok { .. } else { error } ; repaint
CbHttpError(f, r) ==
    /\ cb_pc[f] = "L286"
    /\ Branch(r) = "http"
    /\ ~ErrorLocked
    /\ error_info' = Some(DebugFormat(r.response))
    /\ cb_pc' = [cb_pc EXCEPT ![f] = "returned_repaint"]
    /\ UNCHANGED <<download, components, ui_pc, requests, COUNTER, parsed,
                   arrival, applied, source, newest,
                   view>>

\* One of the three unwrap() calls of the ok branch panics: the callback's
\* thread unwinds, holding no lock.
CbPanic(f, r) ==
    /\ cb_pc[f] = "L286"
    /\ Branch(r) = "Panic"
    /\ cb_pc' = [cb_pc EXCEPT ![f] = "panicked"]
    /\ UNCHANGED <<download, components, error_info, ui_pc, requests, COUNTER,
                   parsed, arrival, applied, source, newest,
                   view>>

\* let Response::Single(result) = result else { return };
CbBatch(f, r) ==
    /\ cb_pc[f] = "L286"
    /\ Branch(r) = "Batch"
    /\ cb_pc' = [cb_pc EXCEPT ![f] = "returned"]
    /\ UNCHANGED <<download, components, error_info, ui_pc, requests, COUNTER,
                   parsed, arrival, applied, source, newest,
                   view>>

\* A failure branch that blanks the view.
CbFailure_Blank(f, r) ==
    /\ cb_pc[f] = "L286"
    /\ Branch(r) = "Failure"
    /\ ~ErrorLocked
    /\ ~ComponentsLocked
    /\ components' = EmptyMap
    /\ error_info' = Some(DebugFormat(Decoded(r.response).error))
    /\ cb_pc' = [cb_pc EXCEPT ![f] = "returned"]
    /\ UNCHANGED <<download, ui_pc, requests, COUNTER, parsed,
                   arrival, applied, source, newest,
                   view>>

\* Output::Failure(e) => { error; return }
CbFailure(f, r) ==
    /\ cb_pc[f] = "L286"
    /\ Branch(r) = "Failure"
    /\ ~ErrorLocked
    /\ error_info' = Some(DebugFormat(Decoded(r.response).error))
    /\ cb_pc' = [cb_pc EXCEPT ![f] = "returned"]
    /\ UNCHANGED <<download, components, ui_pc, requests, COUNTER, parsed,
                   arrival, applied, source, newest,
                   view>>

\* History: response r carries the result payload the snapshot was last
\* built from.
Repeats(r) ==
    source.fetch # 0 /\ r.response.body.doc.output.result.items = source.items

\* A success branch that takes the response for a delta and keeps only the
\* rows that differ from the snapshot.
CbReplace_OnlyChanged(f, r) ==
    /\ cb_pc[f] = "L286"
    /\ Branch(r) = "Ok"
    /\ ~ComponentsLocked
    /\ LET fresh == to_hash_map(Decoded(r.response).value)
           changed == {e \in DOMAIN fresh :
                          e \notin DOMAIN components \/ components[e] # fresh[e]}
       IN components' = [e \in changed |-> fresh[e]]
    /\ cb_pc' = [cb_pc EXCEPT ![f] = "L309"]
    /\ applied' = Append(applied, f)
    /\ source' = [fetch |-> f, items |-> r.response.body.doc.output.result.items,
                  repeat |-> Repeats(r)]
    /\ newest' = IF FiredAfterWriters(f) THEN components' ELSE newest
    /\ UNCHANGED <<download, error_info, ui_pc, requests, COUNTER, parsed, arrival,
                   view>>

\* A success branch that extends the old snapshot instead of replacing it.
CbReplace_Merge(f, r) ==
    /\ cb_pc[f] = "L286"
    /\ Branch(r) = "Ok"
    /\ ~ComponentsLocked
    /\ components' = Collect(components, Decoded(r.response).value)
    /\ cb_pc' = [cb_pc EXCEPT ![f] = "L309"]
    /\ applied' = Append(applied, f)
    /\ source' = [fetch |-> f, items |-> r.response.body.doc.output.result.items,
                  repeat |-> Repeats(r)]
    /\ newest' = IF FiredAfterWriters(f) THEN components' ELSE newest
    /\ UNCHANGED <<download, error_info, ui_pc, requests, COUNTER, parsed, arrival,
                   view>>

\* *components.lock().unwrap() = converted.to_hash_map();
CbReplace(f, r) ==
    /\ cb_pc[f] = "L286"
    /\ Branch(r) = "Ok"
    /\ ~ComponentsLocked
    /\ components' = to_hash_map(Decoded(r.response).value)
    /\ cb_pc' = [cb_pc EXCEPT ![f] = "L309"]
    /\ applied' = Append(applied, f)
    /\ source' = [fetch |-> f, items |-> r.response.body.doc.output.result.items,
                  repeat |-> Repeats(r)]
    /\ newest' = IF FiredAfterWriters(f) THEN components' ELSE newest
    /\ UNCHANGED <<download, error_info, ui_pc, requests, COUNTER, parsed, arrival,
                   view>>

\* *error_info.lock().unwrap() = None; then the repaint request.
CbClearError(f) ==
    /\ cb_pc[f] = "L309"
    /\ ~ErrorLocked
    /\ error_info' = None
    /\ cb_pc' = [cb_pc EXCEPT ![f] = "returned_repaint"]
    /\ UNCHANGED <<download, components, ui_pc, requests, COUNTER, parsed,
                   arrival, applied, source, newest,
                   view>>

\* ------------------------------------------------------------------- Next
Next ==
    \/ UiReadDownload
    \/ UiClickFetch
    \/ UiNoClick
    \/ UiLockComponents
    \/ UiLockError
    \/ UiDraw
    \/ \E f \in Fetches : CbSetDone(f)
    \/ \E f \in Fetches, r \in ResultsTaking["transport"] : CbTransportError(f, r)
    \/ \E f \in Fetches, r \in ResultsTaking["http"] : CbHttpError(f, r)
    \/ \E f \in Fetches, r \in ResultsTaking["Panic"] : CbPanic(f, r)
    \/ \E f \in Fetches, r \in ResultsTaking["Batch"] : CbBatch(f, r)
    \/ \E f \in Fetches, r \in ResultsTaking["Failure"] : CbFailure(f, r)
    \/ \E f \in Fetches, r \in ResultsTaking["Ok"] : CbReplace(f, r)
    \/ \E f \in Fetches : CbClearError(f)

Spec == Init /\ [][Next]_vars

\* Every callback that ehttp::fetch was given is eventually run.
LiveSpec == Spec /\ \A f \in Fetches : WF_vars(CbSetDone(f))

\* --------------------------------------------------------- protocol codec
\* Method names and parameter values the helpers are called with.
Methods == {"bevy/list", "bevy/query"}
ParamValues == {None, Some("BrpQueryParams")}

\* An encoder that numbers the envelope with the incremented counter.
create_request_NewValue(value, method) ==
    /\ COUNTER <= MaxCalls
    /\ LET params == IF value.some THEN Some([json |-> value.value]) ELSE None
           counter == COUNTER + 1
       IN requests' = Append(requests,
                        [jsonrpc |-> "2.0", method |-> method,
                         id |-> [type |-> "number", value |-> counter],
                         params |-> params])
    /\ COUNTER' = COUNTER + 1
    /\ UNCHANGED <<download, components, error_info, ui_pc, cb_pc, parsed,
                   arrival, applied, source, newest,
                   view>>

\* helper.rs create_request(value, method); make_request and
\* make_empty_request wrap it.  COUNTER.fetch_add(1) returns the old value.
create_request(value, method) ==
    /\ COUNTER <= MaxCalls
    /\ LET params == IF value.some THEN Some(to_value(value.value)) ELSE None
           counter == COUNTER
       IN requests' = Append(requests,
                        [jsonrpc |-> "2.0", method |-> method,
                         id |-> [type |-> "number", value |-> counter],
                         params |-> params])
    /\ COUNTER' = COUNTER + 1
    /\ UNCHANGED <<download, components, error_info, ui_pc, cb_pc, parsed,
                   arrival, applied, source, newest,
                   view>>

\* A call of helper.rs parse() on a response.
ParseCall(response) ==
    /\ parsed' = [called |-> TRUE, response |-> response, result |-> parse(response)]
    /\ UNCHANGED <<download, components, error_info, ui_pc, cb_pc, requests,
                   COUNTER, arrival, applied, source, newest,
                   view>>

NextCodec ==
    \/ \E value \in ParamValues, method \in Methods : create_request(value, method)
    \/ \E response \in HttpResponses : ParseCall(response)

SpecCodec == Init /\ [][NextCodec]_vars

\* ---------------------------------------------------------------- tree view
\* Headers the user may have open at the same time.
MaxOpen == 2

\* serde_json::Value, as far as the tree view looks into it.
JString(s) == [type |-> "string", value |-> s]
JNumber(n) == [type |-> "number", value |-> n]
JArray(items) == [type |-> "array", items |-> items]
JObject(fields) == [type |-> "object", fields |-> fields]

\* The component names draw_entity and the root selection look for, and one
\* it does not (its value serializes to {}).
Name == "bevy_core::name::Name"
Parent == "bevy_hierarchy::components::parent::Parent"
Children == "bevy_hierarchy::components::children::Children"
Button == "bevy_ui::widget::button::Button"

\* HashMap::contains_key and HashMap::get on a component bag or JSON object.
contains_key(bag, key) == \E p \in bag : p[1] = key
get(bag, key) == (CHOOSE p \in bag : p[1] = key)[2]

\* The children an entity of the snapshots below may list: its successor on
\* the ring of entities, an identifier no row has, or both.
Succ(e) == (e % MaxEntity) + 1
Dangling == MaxEntity + 1
ChildrenValues(e) ==
    {JArray(<<JNumber(Succ(e))>>),
     JArray(<<JNumber(Dangling)>>),
     JArray(<<JNumber(Dangling), JNumber(Succ(e))>>),
     JArray(<<JNumber(Succ(e)), JNumber(Succ(Succ(e)))>>),
     JObject({})}

\* Name values: the object Bevy sends, a value that is no object, an object
\* without the name member, an object whose name is no string.
NameValues ==
    {JObject({<<"name", JString("player")>>}),
     JString("player"),
     JObject({<<"hash", JNumber(7)>>}),
     JObject({<<"name", JNumber(7)>>})}

\* The component bags of entity e in the snapshots the tree view is run on:
\* any combination of a Parent and a Children component, or one lone
\* component.
RenderBags(e) ==
    {p \cup c : p \in {{}, {<<Parent, JNumber(Succ(e))>>}},
                c \in {{}} \cup {{<<Children, v>>} : v \in ChildrenValues(e)}}
        \cup {{<<Button, JObject({})>>}}
        \cup {{<<Name, v>>} : v \in NameValues}

\* Snapshots: the empty one, and those with one row per entity.
RenderSnapshots ==
    {EmptyMap} \cup
    {[e \in Entities |-> [entity |-> e, components |-> bags[e], has |-> EmptyBag]] :
        bags \in {b \in [Entities -> UNION {RenderBags(e) : e \in Entities}] :
                    \A e \in Entities : b[e] \in RenderBags(e)}}

\* draw_entity: the name part of a header label.  unwrap() on a missing
\* member or on a member that is no string panics.
name_label(bag) ==
    IF ~contains_key(bag, Name) THEN [panicked |-> FALSE, text |-> ""]
    ELSE LET name == get(bag, Name) IN
         IF name.type # "object" THEN [panicked |-> FALSE, text |-> "NONE"]
         ELSE IF ~contains_key(name.fields, "name") THEN [panicked |-> TRUE]
         ELSE IF get(name.fields, "name").type # "string" THEN [panicked |-> TRUE]
         ELSE [panicked |-> FALSE, text |-> get(name.fields, "name").value]

\* draw_entity: the component names listed under the Components heading.
dumped_keys(bag) == {p[1] : p \in bag} \ {Parent, Children}

\* draw_entity: the entries of a children array that are u64 numbers.
as_u64s(items) ==
    {items[i].value : i \in {j \in DOMAIN items : items[j].type = "number"}}

\* A header whose body is run although the user never opened it.
header_open_Always(path, opened) == TRUE

\* CollapsingHeader::default_open(false).show(ui, body): egui runs the body
\* closure only while the header, identified by its place in the tree, is
\* open.
header_open(path, opened) == path \in opened

\* The call stack a render pass can reach with MaxOpen headers open; a call
\* below it stands for recursion without end.
DepthLimit == MaxOpen + 1

\* What a call of draw_entity puts on the screen when it returns early.
Undrawn(path) ==
    [visited |-> {path}, headers |-> {}, labels |-> {}, dumps |-> {},
     panicked |-> FALSE, overflow |-> FALSE]

\* A lookup that takes a missing entity for a fatal error.
Missing_Panics(path) == [Undrawn(path) EXCEPT !.panicked = TRUE]

\* let Some(item) = components.get(entity) else { return; };
Missing(path) == Undrawn(path)

\* TemplateApp::draw_entity, called for the entity at the end of path (the
\* chain of headers it is nested in).
RECURSIVE draw_entity(_, _, _, _)
draw_entity(path, snap, skip, opened) ==
    LET entity == path[Len(path)] IN
    IF Len(path) > DepthLimit THEN [Undrawn(path) EXCEPT !.overflow = TRUE]
    ELSE IF entity \notin DOMAIN snap THEN Missing(path)
    ELSE LET item == snap[entity]
             is_empty == Cardinality(item.components) = 0
             name == name_label(item.components)
             header == [Undrawn(path) EXCEPT !.headers = {path},
                                             !.labels = {<<path, name.text>>}]
             dump == {[path |-> path, keys |-> dumped_keys(item.components)]}
         IN
         IF skip /\ is_empty THEN Undrawn(path)
         ELSE IF name.panicked THEN [Undrawn(path) EXCEPT !.panicked = TRUE]
         ELSE IF ~header_open(path, opened) THEN header
         ELSE IF ~contains_key(item.components, Children)
              THEN [header EXCEPT !.dumps = dump]
         ELSE LET children == get(item.components, Children) IN
              IF children.type # "array" THEN header
              ELSE LET subs == {draw_entity(Append(path, el), snap, skip, opened) :
                                    el \in as_u64s(children.items)}
                   IN [visited |-> {path} \cup UNION {s.visited : s \in subs},
                       headers |-> {path} \cup UNION {s.headers : s \in subs},
                       labels |-> header.labels \cup UNION {s.labels : s \in subs},
                       dumps |-> dump \cup UNION {s.dumps : s \in subs},
                       panicked |-> \E s \in subs : s.panicked,
                       overflow |-> \E s \in subs : s.overflow]

\* A status line that looks at the snapshot before it looks at the error.
status_message_EmptyFirst(is_empty, error) ==
    IF is_empty THEN [kind |-> "empty", text |-> "No components, try fetching first"]
    ELSE [kind |-> "error", text |-> error.value]

\* match &*error { Some(e) => label(e), None => heading("No components...") }
status_message(is_empty, error) ==
    IF error.some THEN [kind |-> "error", text |-> error.value]
    ELSE [kind |-> "empty", text |-> "No components, try fetching first"]

\* A root selection that keeps every entity.
is_root_Any(row) == TRUE

\* The filter of the entities vector: rows without a Parent component.
is_root(row) == ~contains_key(row.components, Parent)

\* The render closure of update(): the status line, or the tree.
RenderPass(snap, error, skip, opened) ==
    LET is_empty == Cardinality(DOMAIN snap) = 0 IN
    IF is_empty \/ error.some
    THEN [rendered |-> TRUE, message |-> status_message(is_empty, error),
          roots |-> {}, visited |-> {}, headers |-> {}, labels |-> {},
          dumps |-> {}, panicked |-> FALSE, overflow |-> FALSE]
    ELSE LET entities == {e \in DOMAIN snap : is_root(snap[e])}
             subs == {draw_entity(<<e>>, snap, skip, opened) : e \in entities}
         IN [rendered |-> TRUE, message |-> [kind |-> "none", text |-> ""],
             roots |-> entities,
             visited |-> UNION {s.visited : s \in subs},
             headers |-> UNION {s.headers : s \in subs},
             labels |-> UNION {s.labels : s \in subs},
             dumps |-> UNION {s.dumps : s \in subs},
             panicked |-> \E s \in subs : s.panicked,
             overflow |-> \E s \in subs : s.overflow]

\* The application with a snapshot and an error cell as fetches can leave
\* them, the filter as the last session saved it, nothing rendered yet.
InitRender ==
    /\ download = "None"
    /\ components \in RenderSnapshots
    /\ error_info \in {None, Some("Err(connection refused)")}
    /\ ui_pc = "frame"
    /\ cb_pc = [f \in Fetches |-> "unused"]
    /\ requests = <<>>
    /\ COUNTER = 1
    /\ parsed = [called |-> FALSE]
    /\ arrival = <<>>
    /\ applied = <<>>
    /\ source = [fetch |-> 0, items |-> <<>>, repeat |-> FALSE]
    /\ newest = EmptyMap
    /\ skip_empty_entities \in BOOLEAN
    /\ open = {}
    /\ shown = Unrendered
    /\ collected = [called |-> FALSE, rows |-> <<>>, map |-> EmptyMap]

\* The UI thread is alive: no render pass has panicked or overflowed.
UiAlive == shown.rendered => ~shown.panicked /\ ~shown.overflow

\* A render closure that takes the error out of its cell once it is shown.
Render_TakesError ==
    /\ UiAlive
    /\ ~shown.rendered
    /\ shown' = RenderPass(components, error_info, skip_empty_entities, open)
    /\ error_info' = None
    /\ UNCHANGED <<download, components, ui_pc, cb_pc, requests,
                   COUNTER, parsed, arrival, applied, source, newest,
                   skip_empty_entities, open, collected>>

\* One frame of update(): the render closure runs under both guards.
Render ==
    /\ UiAlive
    /\ ~shown.rendered
    /\ shown' = RenderPass(components, error_info, skip_empty_entities, open)
    /\ UNCHANGED <<download, components, error_info, ui_pc, cb_pc, requests,
                   COUNTER, parsed, arrival, applied, source, newest,
                   skip_empty_entities, open, collected>>

\* The user clicks a header that is on the screen; the frame is drawn with
\* the header's new state.
ToggleHeader(path) ==
    /\ UiAlive
    /\ shown.rendered
    /\ path \in shown.headers
    /\ path \in open \/ Cardinality(open) < MaxOpen
    /\ open' = IF path \in open THEN open \ {path} ELSE open \cup {path}
    /\ shown' = RenderPass(components, error_info, skip_empty_entities, open')
    /\ UNCHANGED <<download, components, error_info, ui_pc, cb_pc, requests,
                   COUNTER, parsed, arrival, applied, source, newest,
                   skip_empty_entities, collected>>

\* The user clicks the "Hide empty entities" checkbox (enabled while no
\* fetch is in progress); the frame is drawn with the new filter.
ToggleSkipEmpty ==
    /\ UiAlive
    /\ shown.rendered
    /\ ~is_downloading(download)
    /\ skip_empty_entities' = ~skip_empty_entities
    /\ shown' = RenderPass(components, error_info, skip_empty_entities', open)
    /\ UNCHANGED <<download, components, error_info, ui_pc, cb_pc, requests,
                   COUNTER, parsed, arrival, applied, source, newest,
                   open, collected>>

NextRender ==
    \/ Render
    \/ \E path \in shown.headers : ToggleHeader(path)
    \/ ToggleSkipEmpty

SpecRender == InitRender /\ [][NextRender]_vars

\* ---------------------------------------------------------- row conversion
\* Decoded rows (BrpQueryRow) to_hash_map is called on: every entity with
\* each of three component bags, so that rows of one entity can differ.
ConvertRows ==
    [entity : Entities,
     components : {EmptyBag, NameBag, {<<Button, JObject({})>>}},
     has : {EmptyBag}]

\* A decoded response of up to MaxRows + 1 rows, not converted yet.
InitConvert ==
    /\ download = "None"
    /\ components = EmptyMap
    /\ error_info = None
    /\ ui_pc = "frame"
    /\ cb_pc = [f \in Fetches |-> "unused"]
    /\ requests = <<>>
    /\ COUNTER = 1
    /\ parsed = [called |-> FALSE]
    /\ arrival = <<>>
    /\ applied = <<>>
    /\ source = [fetch |-> 0, items |-> <<>>, repeat |-> FALSE]
    /\ newest = EmptyMap
    /\ skip_empty_entities = TRUE
    /\ open = {}
    /\ shown = Unrendered
    /\ collected \in {[called |-> FALSE, rows |-> rows, map |-> EmptyMap] :
                        rows \in SeqsUpTo(ConvertRows, MaxRows + 1)}

\* converted.to_hash_map()
ToHashMapCall ==
    /\ ~collected.called
    /\ collected' = [called |-> TRUE, rows |-> collected.rows,
                     map |-> to_hash_map(collected.rows)]
    /\ UNCHANGED <<download, components, error_info, ui_pc, cb_pc, requests,
                   COUNTER, parsed, arrival, applied, source, newest,
                   skip_empty_entities, open, shown>>

NextConvert == ToHashMapCall

SpecConvert == InitConvert /\ [][NextConvert]_vars

\* ================================================================ claims
\* The mapping a row array stands for, stated without the insertion loop:
\* its keys are the entities that occur, each mapped to its last row.
LastIndexOf(items, e) ==
    CHOOSE i \in DOMAIN items :
        /\ items[i].entity = e
        /\ \A j \in DOMAIN items : items[j].entity = e => j <= i
SnapshotOf(items) ==
    [e \in {items[i].entity : i \in DOMAIN items} |->
        DecodeRow(items[LastIndexOf(items, e)])]

Running(f) == cb_pc[f] \in {"L286", "L309"}
Returned(f) == cb_pc[f] \in {"returned", "returned_repaint", "panicked"}

\* A step in which the callback of f ends in failure: from its decoding
\* position straight to a return or a panic.
FailedStep(f) ==
    /\ cb_pc[f] = "L286"
    /\ cb_pc'[f] \in {"returned", "returned_repaint", "panicked"}

\* A step in which the callback of f ends in success.
SucceededStep(f) ==
    /\ cb_pc[f] = "L309"
    /\ cb_pc'[f] = "returned_repaint"

\* C1: once the N-th successful completion has been applied, the snapshot
\* holds exactly the rows of that completion's response: every entity the
\* response lists is a key, no other entity is, and every key maps to a row
\* of the response.
C1_FullReplace ==
    applied # <<>> =>
        /\ source.fetch = applied[Len(applied)]
        /\ \A i \in DOMAIN source.items : source.items[i].entity \in DOMAIN components
        /\ \A e \in DOMAIN components :
              \E i \in DOMAIN source.items :
                  /\ source.items[i].entity = e
                  /\ components[e].entity = e
                  /\ components[e].components = source.items[i].components

\* C1 witness: a second successful completion has replaced a snapshot that
\* held an entity the second response does not list.
C1_Witness ==
    /\ Len(applied) >= 2
    /\ components # EmptyMap
    /\ 1 \notin DOMAIN components

\* C2: the step in which a completion fails (transport error, non-OK
\* status, malformed or batch envelope, remote error, mis-shaped payload)
\* leaves the snapshot as it was, and so does the step that fired it.
C2_FailureKeepsSnapshot ==
    [][\A f \in Fetches :
          (FailedStep(f) \/ (cb_pc[f] = "in_flight" /\ cb_pc'[f] = "L286"))
              => components' = components]_vars

\* C2 witness: a completion has failed with a remote error while the
\* snapshot of an earlier fetch is held.
C2_Witness ==
    /\ components # EmptyMap
    /\ error_info = Some(DebugFormat(FailureOutput.error))
    /\ \A f \in Fetches : cb_pc[f] # "unused" => Returned(f)

\* C3 (as claimed): the step that ends a completion leaves ErrorState empty
\* if the fetch succeeded and set if it failed, whatever the kind of failure.
C3_ErrorOverwritten ==
    [][\A f \in Fetches :
          /\ SucceededStep(f) => ~error_info'.some
          /\ FailedStep(f) => error_info'.some]_vars

\* C4: while the status is InProgress a callback is still to come, and under
\* the transport's promise to call back, InProgress leads to Done.
C4_InProgressLeadsToDone ==
    /\ [](download = "InProgress" => \E f \in Fetches : cb_pc[f] = "in_flight")
    /\ (download = "InProgress") ~> (download = "Done")

\* C4 witness: the status is Done after a callback that panicked.
C4_Witness ==
    /\ download = "Done"
    /\ \E f \in Fetches : cb_pc[f] = "panicked"

\* C5: a fetch is dispatched only while the status is not InProgress and no
\* dispatched fetch still waits for its callback to fire.
C5_DispatchGated ==
    [][UiClickFetch =>
          /\ download # "InProgress"
          /\ \A f \in Fetches : cb_pc[f] # "in_flight"]_vars

\* C5 witness: a second fetch has been dispatched.
C5_Witness ==
    /\ Len(requests) = 2
    /\ download = "InProgress"

\* C6: in every state, also while the render closure holds the snapshot's
\* lock, the snapshot is the initial empty mapping or the complete row
\* mapping of the one successful response it was last built from.
C6_OneCompleteResponse ==
    /\ source.fetch = 0 => components = EmptyMap
    /\ source.fetch # 0 =>
          /\ source.fetch \in Fetches
          /\ \A i \in DOMAIN source.items : RowDecodes(source.items[i])
          /\ components = SnapshotOf(source.items)

\* C6 witness: the render closure reads a snapshot of two rows.
C6_Witness ==
    /\ ui_pc = "error"
    /\ Cardinality(DOMAIN components) = 2

\* C7 (as claimed): once no callback is running, the snapshot is the row
\* set of the successful fetch whose callback fired last.
C7_LastFiredWins ==
    (Succeeded # {} /\ \A f \in Fetches : ~Running(f))
        => components = newest

\* C8: the k-th envelope create_request returns carries the number k,
\* whatever method and parameters it was called with.
C8_IdsCountFromOne ==
    \A k \in DOMAIN requests : requests[k].id = [type |-> "number", value |-> k]

\* C8 witness: three calls with differing methods and parameters.
C8_Witness ==
    /\ Len(requests) = 3
    /\ requests[1].method # requests[2].method
    /\ requests[2].params # requests[3].params

\* C9 (as claimed): no two issued request envelopes carry the same id.
C9_IdsNeverReused ==
    \A i, j \in DOMAIN requests : i # j => requests[i].id # requests[j].id

\* C10 (as claimed): parse returns an error value, and never aborts, for a
\* body that is no envelope JSON, a batch, a failure envelope or a payload
\* of the wrong shape, and returns the rows only for a single success
\* envelope whose payload is an array of rows.
IsRowsEnvelope(response) ==
    /\ response.body.utf8
    /\ response.body.doc.json = "single"
    /\ response.body.doc.output.variant = "Success"
    /\ response.body.doc.output.result.type = "array"
    /\ \A i \in DOMAIN response.body.doc.output.result.items :
          "entity" \in DOMAIN response.body.doc.output.result.items[i]
C10_ParseReturnsErr ==
    parsed.called =>
        IF IsRowsEnvelope(parsed.response)
        THEN /\ parsed.result.tag = "Ok"
             /\ Len(parsed.result.value) =
                    Len(parsed.response.body.doc.output.result.items)
        ELSE parsed.result.tag = "Err"

\* ------------------------------------- tree view, frame and conversion
\* The tree is on the screen: the render pass went past the status line and
\* returned.
TreeShown ==
    /\ shown.rendered
    /\ shown.message.kind = "none"
    /\ ~shown.panicked
    /\ ~shown.overflow

\* C11 (as claimed): no completion callback and no render pass ends in a
\* panic, whatever the response and whatever the snapshot holds.
C11_NoCrashingPath ==
    /\ \A f \in Fetches : cb_pc[f] # "panicked"
    /\ ~shown.panicked

\* The entities drawn at top level, and the entities some row's children
\* array lists.
TopLevel == {path[1] : path \in {p \in shown.headers : Len(p) = 1}}
HasChildrenArray(row) ==
    /\ contains_key(row.components, Children)
    /\ get(row.components, Children).type = "array"
ListedBy(row) ==
    IF HasChildrenArray(row) THEN as_u64s(get(row.components, Children).items)
    ELSE {}
Listed(e) == \E p \in DOMAIN components : e \in ListedBy(components[p])
Hidden(e) ==
    skip_empty_entities /\ Cardinality(components[e].components) = 0

\* C12 (as claimed): the entities drawn at top level include every entity
\* that has no Parent component and is in no children array, and exclude
\* every entity that is in some children array.
C12_RootsExcludeListed ==
    TreeShown =>
        \A e \in DOMAIN components :
            /\ (is_root(components[e]) /\ ~Listed(e)) => e \in TopLevel
            /\ Listed(e) => e \notin TopLevel

\* C12 (amended): the top-level calls of draw_entity are made for exactly
\* the entities without a Parent component, listed in a children array or
\* not, and each of them is drawn unless its bag is empty while the
\* hide-empty filter is on.
C12_RootsHaveNoParent ==
    TreeShown =>
        /\ shown.roots =
              {e \in DOMAIN components :
                  ~contains_key(components[e].components, Parent)}
        /\ TopLevel = {e \in shown.roots : ~Hidden(e)}

\* C12 witness: an entity that a children array lists and that carries no
\* Parent component is drawn at top level, next to one that is excluded
\* because it carries one.
C12_Witness ==
    /\ TreeShown
    /\ \E e \in DOMAIN components :
          Listed(e) /\ is_root(components[e]) /\ e \in TopLevel
    /\ \E e \in DOMAIN components :
          Listed(e) /\ ~is_root(components[e]) /\ e \notin TopLevel

\* The headers that are drawn and open, and the last entity of a path.
OpenHeaders == shown.headers \cap open
Last(path) == path[Len(path)]
NamesWellFormed ==
    \A e \in DOMAIN components : ~name_label(components[e].components).panicked

\* C13: a children entry that names no row of the snapshot stops nothing and
\* draws nothing: the pass does not panic on it, no header appears for it,
\* every other entry of the array that names a visible row gets its header,
\* and the parent's Components section is rendered.
C13_DanglingChildSkipped ==
    /\ (shown.rendered /\ NamesWellFormed) => ~shown.panicked
    /\ TreeShown =>
          \A path \in OpenHeaders :
              HasChildrenArray(components[Last(path)]) =>
                  /\ \A el \in ListedBy(components[Last(path)]) :
                        IF el \in DOMAIN components
                        THEN Hidden(el) \/ Append(path, el) \in shown.headers
                        ELSE Append(path, el) \notin shown.headers
                  /\ \E dump \in shown.dumps : dump.path = path

\* C13 witness: an open header whose children array names a missing entity
\* and then a present one; the call for the missing one was made, the
\* present one is drawn.
C13_Witness ==
    /\ TreeShown
    /\ \E path \in OpenHeaders :
          /\ Append(path, Dangling) \in shown.visited
          /\ \E el \in DOMAIN components : Append(path, el) \in shown.headers

\* C14: a render pass with ErrorState set shows the error text, also over an
\* empty snapshot; the "No components" heading is shown exactly when the
\* snapshot is empty and ErrorState is unset.
C14_ErrorBeforeEmpty ==
    shown.rendered =>
        /\ error_info.some =>
              shown.message = [kind |-> "error", text |-> error_info.value]
        /\ shown.message.kind = "empty" <=>
              (DOMAIN components = {} /\ ~error_info.some)

\* C14 witness: the error is on the screen over an empty snapshot.
C14_Witness ==
    /\ shown.rendered
    /\ error_info.some
    /\ DOMAIN components = {}
    /\ shown.message.kind = "error"

\* A step in which the callback of f writes the snapshot.
ReplaceStep(f) ==
    /\ cb_pc[f] = "L286"
    /\ cb_pc'[f] = "L309"

C16_DiscoveryBeforeQuery ==
    \A i \in DOMAIN requests :
        requests[i].method = "bevy/query" =>
            \E j \in 1..(i - 1) : requests[j].method = "bevy/list"

\* C17: when a successful completion writes a response that carries the
\* payload the snapshot was last built from, the snapshot after the write
\* equals the snapshot before it.
C17_SamePayloadSameSnapshot ==
    [][\A f \in Fetches :
          (ReplaceStep(f) /\ source'.repeat) => components' = components]_vars

\* C17 witness: two successful completions in a row carried the same
\* non-empty payload.
C17_Witness ==
    /\ Len(applied) = 2
    /\ source.repeat
    /\ source.items # <<>>
    /\ cb_pc[source.fetch] = "returned_repaint"

\* C18 (as claimed): a render pass over a non-empty snapshot with ErrorState
\* set shows the error and, with it, the entities of the snapshot: every
\* visible root has its header on the screen.
C18_StaleDataVisible ==
    (shown.rendered /\ error_info.some /\ DOMAIN components # {}) =>
        /\ shown.message.kind = "error"
        /\ TopLevel = {e \in DOMAIN components : is_root(components[e]) /\ ~Hidden(e)}

\* C19: no render pass recurses without end, also on snapshots whose
\* children arrays form a cycle: a call of draw_entity is nested at most one
\* level below the open headers, and an entity is visited at most once at
\* top level and once under each open header.
C19_WalkBounded ==
    shown.rendered =>
        /\ ~shown.overflow
        /\ \A path \in shown.visited : Len(path) <= Cardinality(open) + 1
        /\ \A e \in Entities \cup {Dangling} :
              Cardinality({path \in shown.visited : Last(path) = e})
                  <= Cardinality(open) + 1

\* C19 witness: the children arrays form a cycle and the user has opened
\* the headers along it: an entity is drawn again under its own descendant.
C19_Witness ==
    /\ TreeShown
    /\ \E path \in shown.headers :
          \E i, j \in DOMAIN path : i < j /\ path[i] = path[j]

\* C20: to_hash_map returns a map whose keys are the entities of the rows
\* and whose entry for an entity is the last row of that entity, for every
\* row sequence, with or without repeated entities.
C20_LastWriteWins ==
    collected.called =>
        /\ DOMAIN collected.map =
              {collected.rows[i].entity : i \in DOMAIN collected.rows}
        /\ \A e \in DOMAIN collected.map :
              collected.map[e] = collected.rows[LastIndexOf(collected.rows, e)]

\* C20 witness: three rows of one entity, all different, were converted
\* into a single entry.
C20_Witness ==
    /\ collected.called
    /\ Len(collected.rows) = 3
    /\ \A i, j \in DOMAIN collected.rows :
          /\ collected.rows[i].entity = collected.rows[j].entity
          /\ i # j => collected.rows[i] # collected.rows[j]
    /\ Cardinality(DOMAIN collected.map) = 1

\* A step of the UI thread: its position in update() moves, or the screen,
\* the filter or a header changes.
UiStep ==
    \/ ui_pc' # ui_pc
    \/ shown' # shown
    \/ skip_empty_entities' # skip_empty_entities
    \/ open' # open

\* C21: no step of the UI thread (the render closure, draw_entity, a click
\* on a header or on the hide-empty checkbox) changes the snapshot or
\* ErrorState, and the only change it makes to the status is the dispatch
\* of a fetch, which sets InProgress and issues one request.
C21_RenderReadOnly ==
    [][UiStep =>
          /\ components' = components
          /\ error_info' = error_info
          /\ download' # download =>
                /\ download' = "InProgress"
                /\ Len(requests') = Len(requests) + 1]_vars

\* C21 witness: a tree with an empty entity was rendered with the filter
\* off and a header has been opened since; the cells hold what they held.
C21_Witness ==
    /\ TreeShown
    /\ open # {}
    /\ ~skip_empty_entities
    /\ \E e \in TopLevel : Cardinality(components[e].components) = 0
    /\ download = "None"

\* C22 (as claimed): the render closure never holds, under its two guards,
\* the snapshot a successful completion has just written together with an
\* error that an earlier completion left and that completion has not yet
\* cleared.
C22_NoNewDataWithStaleError ==
    ~(/\ ui_pc = "error"
      /\ error_info.some
      /\ DOMAIN components # {}
      /\ \E f \in Fetches : cb_pc[f] = "L309" /\ source.fetch = f)

\* C23 (as claimed): when the UI thread has read a status of Done and
\* enabled the Fetch button, no completion is still being applied: no
\* callback is between setting Done and its return.
C23_DoneMeansApplied ==
    (ui_pc = "enabled" /\ download = "Done") =>
        \A f \in Fetches : ~Running(f)

\* C25 (as claimed): no completion callback returns without having
\* requested a repaint.
C25_EveryCompletionRepaints ==
    \A f \in Fetches : cb_pc[f] # "returned"

====
